---- MODULE Spec2Model ----
(***************************************************************************)
(* Sumi: generator of an ink! wrapper module from an EVM contract ABI.     *)
(* Model of src/src/main.rs: the type mapper convert_type, the input       *)
(* closure that parses a raw ABI type and maps it, the filter/map chain    *)
(* that builds the functions of the Module, the capitalize formatter, and  *)
(* the pipeline of main (open input, open output, read, parse, build,      *)
(* render, write).                                                         *)
(*                                                                         *)
(* Text is modelled as a sequence of characters, each character a string   *)
(* of length one, so that concatenation, slicing and parsing are real      *)
(* operations.                                                             *)
(***************************************************************************)
EXTENDS Integers, Sequences, FiniteSets, TLC

(***************************************************************************)
(* Bounds of the model.                                                    *)
(***************************************************************************)
MaxEntries == 2
MaxDepth == 2

(***************************************************************************)
(* Text helpers.                                                           *)
(***************************************************************************)
NL == "\n"

\* A character of the model that takes two bytes in UTF-8 (stands for a
\* non-ASCII letter such as e-acute); every other character is one byte.
WideChar == "U+00E9"

S_function == <<"f","u","n","c","t","i","o","n">>
S_event == <<"e","v","e","n","t">>
S_view == <<"v","i","e","w">>
S_nonpayable == <<"n","o","n","p","a","y","a","b","l","e">>
S_bool == <<"b","o","o","l">>
S_address == <<"a","d","d","r","e","s","s">>
S_bytes == <<"b","y","t","e","s">>
S_string == <<"s","t","r","i","n","g">>
S_int == <<"i","n","t">>
S_uint == <<"u","i","n","t">>
S_tuple == <<"t","u","p","l","e">>
S_uint256 == <<"u","i","n","t","2","5","6">>
S_uint7 == <<"u","i","n","t","7">>
S_int24 == <<"i","n","t","2","4">>
S_null == <<"n","u","l","l">>
S_transfer == <<"t","r","a","n","s","f","e","r">>
S_to == <<"t","o">>
S_amount == <<"a","m","o","u","n","t">>

RECURSIVE Concat(_)
\* concatenation of a sequence of texts
Concat(ss) ==
    IF ss = <<>> THEN <<>> ELSE Head(ss) \o Concat(Tail(ss))

RECURSIVE Join(_, _)
\* itertools::join: the texts separated by sep
Join(ss, sep) ==
    IF ss = <<>> THEN <<>>
    ELSE IF Len(ss) = 1 THEN ss[1]
    ELSE ss[1] \o sep \o Join(Tail(ss), sep)

\* Rust's name[a..b] for 0-based positions a <= b
Slice(s, a, b) == SubSeq(s, a + 1, b)

StartsWith(s, p) == Len(s) >= Len(p) /\ SubSeq(s, 1, Len(p)) = p

Digits == <<"0","1","2","3","4","5","6","7","8","9">>

IsDigit(c) == \E i \in 1..10 : Digits[i] = c

DigitVal(c) == (CHOOSE i \in 1..10 : Digits[i] = c) - 1

RECURSIVE DecimalValue(_)
DecimalValue(ds) ==
    IF ds = <<>> THEN 0
    ELSE 10 * DecimalValue(SubSeq(ds, 1, Len(ds) - 1)) + DigitVal(ds[Len(ds)])

Ok(v) == [ok |-> TRUE, val |-> v]
Err(e) == [ok |-> FALSE, err |-> e]

\* str::parse::<usize>: an optional leading '+', then one or more digits.
ParseUsize(s) ==
    LET ds == IF s # <<>> /\ s[1] = "+" THEN Tail(s) ELSE s
    IN  IF ds # <<>> /\ \A i \in 1..Len(ds) : IsDigit(ds[i])
        THEN Ok(DecimalValue(ds))
        ELSE Err("ParseInt")

RECURSIVE ToDecimal(_)
\* Display of an unsigned integer
ToDecimal(n) ==
    IF n < 10 THEN <<Digits[n + 1]>>
    ELSE ToDecimal(n \div 10) \o <<Digits[(n % 10) + 1]>>

(***************************************************************************)
(* ethabi::ParamType                                                       *)
(***************************************************************************)
PBool == [tag |-> "Bool"]
PAddress == [tag |-> "Address"]
PBytes == [tag |-> "Bytes"]
PString == [tag |-> "String"]
PInt(size) == [tag |-> "Int", size |-> size]
PUint(size) == [tag |-> "Uint", size |-> size]
PFixedBytes(size) == [tag |-> "FixedBytes", size |-> size]
PArray(inner) == [tag |-> "Array", inner |-> inner]
PFixedArray(inner, size) == [tag |-> "FixedArray", inner |-> inner, size |-> size]
PTuple(inner) == [tag |-> "Tuple", inner |-> inner]

(***************************************************************************)
(* ethabi::param_type::Reader::read, the parser the input closure calls on *)
(* the raw type text (main.rs line 386).  Positions are 0-based as in the  *)
(* library.  A result is Ok(ParamType) or Err(kind).                       *)
(***************************************************************************)
MaxOf(S) == CHOOSE m \in S : \A k \in S : k <= m

\* the characters between the last '[' before the final ']' and that ']'
NumPart(name) ==
    LET n == Len(name)
        opens == {i \in 1..(n - 1) : name[i] = "["}
        start == IF opens = {} THEN 0 ELSE MaxOf(opens)
    IN  SubSeq(name, start + 1, n - 1)

RECURSIVE SkipToDelim(_, _)
\* the ')' branch consumes the characters that follow an inner tuple up to
\* the next ',' or ')' so that trailing brackets stay with the inner tuple
SkipToDelim(name, pos) ==
    IF pos + 1 >= Len(name) THEN pos
    ELSE IF name[pos + 2] \in {",", ")"} THEN pos
    ELSE SkipToDelim(name, pos + 1)

RECURSIVE Read(_)
RECURSIVE TupleLoop(_, _, _)

TupleLoop(name, pos, st) ==
    IF pos >= Len(name) THEN Ok(PTuple(st.subtypes))
    ELSE
    LET c == name[pos + 1] IN
    IF c = "(" THEN
        LET nested == st.nested + 1 IN
        TupleLoop(name, pos + 1,
            [st EXCEPT !.top = pos, !.nested = nested,
                       !.subtuples = IF nested > 1 THEN Append(@, <<>>) ELSE @,
                       !.last = IF nested > 1 THEN pos + 1 ELSE @])
    ELSE IF c = ")" THEN
        LET nested == st.nested - 1 IN
        IF nested < 0 THEN Err("InvalidName")
        ELSE IF Slice(name, st.last, pos) = <<>> THEN
            TupleLoop(name, pos + 1, [st EXCEPT !.nested = nested, !.last = pos + 1])
        ELSE IF nested = 0 THEN
            LET sub == Read(Slice(name, st.last, pos)) IN
            IF ~sub.ok THEN sub
            ELSE TupleLoop(name, pos + 1,
                    [st EXCEPT !.nested = nested, !.last = pos + 1,
                               !.subtypes = Append(@, sub.val)])
        ELSE
            LET end == SkipToDelim(name, pos)
                sub == Read(Slice(name, st.top, end + 1))
            IN  IF ~sub.ok THEN sub
                ELSE IF nested > 1 THEN
                    TupleLoop(name, end + 1,
                        [st EXCEPT !.nested = nested, !.last = end + 1,
                            !.subtuples = [@ EXCEPT ![nested - 1] = <<>>],
                            !.subtypes = Append(@,
                                PTuple(Append(st.subtuples[nested - 1], sub.val)))])
                ELSE
                    TupleLoop(name, end + 1,
                        [st EXCEPT !.nested = nested, !.last = end + 1,
                                   !.subtypes = Append(@, sub.val)])
    ELSE IF c = "," THEN
        IF Slice(name, st.last, pos) = <<>> THEN
            TupleLoop(name, pos + 1, [st EXCEPT !.last = pos + 1])
        ELSE
            LET sub == Read(Slice(name, st.last, pos)) IN
            IF ~sub.ok THEN sub
            ELSE IF st.nested = 1 THEN
                TupleLoop(name, pos + 1,
                    [st EXCEPT !.last = pos + 1, !.subtypes = Append(@, sub.val)])
            ELSE IF st.nested > 1 THEN
                TupleLoop(name, pos + 1,
                    [st EXCEPT !.last = pos + 1,
                        !.subtuples = [@ EXCEPT ![st.nested - 1] = Append(@, sub.val)]])
            ELSE TupleLoop(name, pos + 1, st)
    ELSE TupleLoop(name, pos + 1, st)

\* the final match on the whole name
ReadName(name) ==
    IF name = S_address THEN Ok(PAddress)
    ELSE IF name = S_bytes THEN Ok(PBytes)
    ELSE IF name = S_bool THEN Ok(PBool)
    ELSE IF name = S_string THEN Ok(PString)
    ELSE IF name = S_int THEN Ok(PInt(256))
    ELSE IF name = S_tuple THEN Ok(PTuple(<<>>))
    ELSE IF name = S_uint THEN Ok(PUint(256))
    ELSE IF StartsWith(name, S_int) THEN
        LET len == ParseUsize(Slice(name, 3, Len(name)))
        IN  IF len.ok THEN Ok(PInt(len.val)) ELSE len
    ELSE IF StartsWith(name, S_uint) THEN
        LET len == ParseUsize(Slice(name, 4, Len(name)))
        IN  IF len.ok THEN Ok(PUint(len.val)) ELSE len
    ELSE IF StartsWith(name, S_bytes) THEN
        LET len == ParseUsize(Slice(name, 5, Len(name)))
        IN  IF len.ok THEN Ok(PFixedBytes(len.val)) ELSE len
    \* any other name: recent versions of the library take it for a Solidity
    \* enum (older ones return InvalidName); no input of the model gets here
    ELSE Ok(PUint(8))

Read(name) ==
    IF name # <<>> /\ name[Len(name)] = ")" THEN
        IF name[1] # "(" THEN Err("InvalidName")
        ELSE TupleLoop(name, 0,
                [subtypes |-> <<>>, subtuples |-> <<>>, nested |-> 0,
                 top |-> 0, last |-> 1])
    ELSE IF name # <<>> /\ name[Len(name)] = "]" THEN
        LET num == NumPart(name)
            count == Len(name)
        IN  IF num = <<>> THEN
                \* name[..count - 2] of a one-character name is out of range
                IF count < 2 THEN Err("Panic")
                ELSE LET sub == Read(Slice(name, 0, count - 2))
                     IN  IF sub.ok THEN Ok(PArray(sub.val)) ELSE sub
            ELSE
                LET len == ParseUsize(num) IN
                IF ~len.ok THEN len
                ELSE IF count < Len(num) + 2 THEN Err("Panic")
                ELSE LET sub == Read(Slice(name, 0, count - Len(num) - 2))
                     IN  IF sub.ok THEN Ok(PFixedArray(sub.val, len.val)) ELSE sub
    ELSE ReadName(name)

(***************************************************************************)
(* convert_type (main.rs lines 286-317)                                    *)
(***************************************************************************)
ConvertInt(size) ==
    CASE size = 8 -> <<"i","8">>
      [] size = 16 -> <<"i","1","6">>
      [] size = 32 -> <<"i","3","2">>
      [] size = 64 -> <<"i","6","4">>
      [] size = 128 -> <<"i","1","2","8">>
      [] OTHER -> <<"I","2","5","6">>

\* ConvertUint without its 128 arm
ConvertUint_No128(size) ==
    CASE size = 8 -> <<"u","8">>
      [] size = 16 -> <<"u","1","6">>
      [] size = 32 -> <<"u","3","2">>
      [] size = 64 -> <<"u","6","4">>
      [] OTHER -> <<"U","2","5","6">>

ConvertUint(size) ==
    CASE size = 8 -> <<"u","8">>
      [] size = 16 -> <<"u","1","6">>
      [] size = 32 -> <<"u","3","2">>
      [] size = 64 -> <<"u","6","4">>
      [] size = 128 -> <<"u","1","2","8">>
      [] OTHER -> <<"U","2","5","6">>

RECURSIVE convert_type(_)
convert_type(ty) ==
    CASE ty.tag = "Bool" -> S_bool
      [] ty.tag = "Address" -> <<"H","1","6","0">>
      [] ty.tag = "Array" ->
            <<"V","e","c","<">> \o convert_type(ty.inner) \o <<">">>
      [] ty.tag = "FixedArray" ->
            <<"[">> \o convert_type(ty.inner) \o <<";"," ">>
                \o ToDecimal(ty.size) \o <<"]">>
      [] ty.tag = "Tuple" ->
            <<"(">> \o Join([i \in 1..Len(ty.inner) |-> convert_type(ty.inner[i])],
                            <<","," ">>) \o <<")">>
      [] ty.tag = "FixedBytes" ->
            <<"F","i","x","e","d","B","y","t","e","s","<">>
                \o ToDecimal(ty.size) \o <<">">>
      [] ty.tag = "Bytes" -> <<"V","e","c","<","u","8",">">>
      [] ty.tag = "String" -> <<"S","t","r","i","n","g">>
      [] ty.tag = "Int" -> ConvertInt(ty.size)
      [] ty.tag = "Uint" -> ConvertUint(ty.size)

(***************************************************************************)
(* json::JsonValue, as far as main reads it.                               *)
(***************************************************************************)
JNull == [kind |-> "null"]
JStr(s) == [kind |-> "string", val |-> s]
JNum(n) == [kind |-> "number", num |-> n]
JArr(items) == [kind |-> "array", items |-> items]
JObj(fields) == [kind |-> "object", fields |-> fields]

\* value[key]: Null unless value is an object that has the key
Index(v, key) ==
    IF v.kind = "object" /\ key \in DOMAIN v.fields THEN v.fields[key] ELSE JNull

\* value.members(): the elements of an array, nothing for any other value
Members(v) == IF v.kind = "array" THEN v.items ELSE <<>>

\* value == "text"
EqStr(v, s) == v.kind = "string" /\ v.val = s

\* value.as_str()
AsStr(v) == IF v.kind = "string" THEN Ok(v.val) ELSE Err("None")

\* value.to_string()
JsonToString(v) ==
    CASE v.kind = "string" -> v.val
      [] v.kind = "number" -> ToDecimal(v.num)
      [] v.kind = "null" -> S_null
      [] OTHER -> <<"[","]">>

(***************************************************************************)
(* Keccak256 is kept symbolic: the digest text of a message is the message *)
(* under a tag, so two digests are equal exactly when the messages are.    *)
(***************************************************************************)
SelectorHash(selector) == <<"k","e","c","c","a","k","4",":">> \o selector

(***************************************************************************)
(* The filter/map chain of main (lines 376-416).                           *)
(***************************************************************************)
\* Included without the stateMutability filter
Included_NoViewFilter(item) ==
    /\ EqStr(Index(item, "type"), S_function)
    /\ \A i \in 1..Len(Members(Index(item, "outputs"))) :
            EqStr(Index(Members(Index(item, "outputs"))[i], "type"), S_bool)

\* the three filters of lines 378-380
Included(item) ==
    /\ EqStr(Index(item, "type"), S_function)
    /\ ~EqStr(Index(item, "stateMutability"), S_view)
    /\ \A i \in 1..Len(Members(Index(item, "outputs"))) :
            EqStr(Index(Members(Index(item, "outputs"))[i], "type"), S_bool)

\* the closure of lines 384-394 on one input object: an Input, or a panic
\* when one of the two unwrap calls meets None or Err
MakeInput(m) ==
    LET raw_type == AsStr(Index(m, "type")) IN
    IF ~raw_type.ok THEN Err("Panic")
    ELSE LET param_type == Read(raw_type.val) IN
         IF ~param_type.ok THEN Err("Panic")
         ELSE Ok([name |-> JsonToString(Index(m, "name")),
                  evm_type |-> raw_type.val,
                  rust_type |-> convert_type(param_type.val)])

\* MakeSelector with the mapped types in place of the raw ones
MakeSelector_Mapped(function_name, inputs) ==
    function_name \o <<"(">>
        \o Join([i \in 1..Len(inputs) |-> inputs[i].rust_type], <<",">>) \o <<")">>

\* format!("{name}({args})") of lines 398-401
MakeSelector(function_name, inputs) ==
    function_name \o <<"(">>
        \o Join([i \in 1..Len(inputs) |-> inputs[i].evm_type], <<",">>) \o <<")">>

\* the closure of lines 381-415 on one included item
MakeFunction(function) ==
    LET function_name == JsonToString(Index(function, "name"))
        ms == Members(Index(function, "inputs"))
        made == [i \in 1..Len(ms) |-> MakeInput(ms[i])]
    IN  IF \E i \in 1..Len(ms) : ~made[i].ok THEN Err("Panic")
        ELSE LET inputs == [i \in 1..Len(ms) |-> made[i].val]
                 selector == MakeSelector(function_name, inputs)
             IN  Ok([name |-> function_name,
                     inputs |-> inputs,
                     output |-> S_bool,
                     selector |-> selector,
                     selector_hash |-> SelectorHash(selector)])

\* BuildFunctions collecting the functions in reverse
BuildFunctions_Reversed(doc) ==
    LET kept == SelectSeq(Members(doc), Included)
        made == [i \in 1..Len(kept) |-> MakeFunction(kept[i])]
    IN  IF \E i \in 1..Len(kept) : ~made[i].ok THEN Err("Panic")
        ELSE Ok([i \in 1..Len(kept) |-> made[Len(kept) + 1 - i].val])

\* lines 376-416 (Iterator::filter keeps the passing elements in their order,
\* as SelectSeq does): Ok(functions), or a panic raised inside the map closure
BuildFunctions(doc) ==
    LET kept == SelectSeq(Members(doc), Included)
        made == [i \in 1..Len(kept) |-> MakeFunction(kept[i])]
    IN  IF \E i \in 1..Len(kept) : ~made[i].ok THEN Err("Panic")
        ELSE Ok([i \in 1..Len(kept) |-> made[i].val])

(***************************************************************************)
(* The formatters registered on the template (lines 342-362).  A formatter *)
(* ends in Ok(text), in Err("Format") (the GenericError it returns) or in  *)
(* Err("Panic").                                                           *)
(***************************************************************************)
LowerCase == <<"a","b","c","d","e","f","g","h","i","j","k","l","m",
               "n","o","p","q","r","s","t","u","v","w","x","y","z">>
UpperCase == <<"A","B","C","D","E","F","G","H","I","J","K","L","M",
               "N","O","P","Q","R","S","T","U","V","W","X","Y","Z">>

IsLower(c) == \E i \in 1..26 : LowerCase[i] = c
IsUpper(c) == \E i \in 1..26 : UpperCase[i] = c

\* char::to_uppercase / to_lowercase on the characters of the model
ToUpper(c) == IF IsLower(c) THEN UpperCase[CHOOSE i \in 1..26 : LowerCase[i] = c] ELSE c
ToLower(c) == IF IsUpper(c) THEN LowerCase[CHOOSE i \in 1..26 : UpperCase[i] = c] ELSE c

\* length of a character in UTF-8 bytes
ByteLen(c) == IF c = WideChar THEN 2 ELSE 1

\* str::split_at(mid) accepts mid only on a character boundary within the text
RECURSIVE IsCharBoundary(_, _)
IsCharBoundary(s, mid) ==
    IF mid = 0 THEN TRUE
    ELSE IF s = <<>> THEN FALSE
    ELSE IF ByteLen(s[1]) > mid THEN FALSE
    ELSE IsCharBoundary(Tail(s), mid - ByteLen(s[1]))

\* lines 352-362
capitalize(value) ==
    IF value.kind = "string" THEN
        LET s == value.val IN
        IF ~IsCharBoundary(s, 1) THEN Err("Panic")
        ELSE LET head == SubSeq(s, 1, 1)
                 tail == SubSeq(s, 2, Len(s))
             IN  Ok([i \in 1..Len(head) |-> ToUpper(head[i])] \o tail)
    ELSE Err("Format")

RECURSIVE SnakeWords(_, _)
\* convert_case on a name of letters: a word starts at each upper-case
\* letter that follows a lower-case one; words are joined by '_'
SnakeWords(s, prev) ==
    IF s = <<>> THEN <<>>
    ELSE (IF IsUpper(s[1]) /\ IsLower(prev) THEN <<"_">> ELSE <<>>)
            \o <<s[1]>> \o SnakeWords(Tail(s), s[1])

\* lines 342-345
snake(value) ==
    IF value.kind = "string"
    THEN LET w == SnakeWords(value.val, "") IN Ok([i \in 1..Len(w) |-> ToLower(w[i])])
    ELSE Err("Format")

\* lines 347-350
upper_snake(value) ==
    IF value.kind = "string"
    THEN LET w == SnakeWords(value.val, "") IN Ok([i \in 1..Len(w) |-> ToUpper(w[i])])
    ELSE Err("Format")

(***************************************************************************)
(* MODULE_TEMPLATE (lines 31-257) expanded on a Module.  A run of literal  *)
(* template text that holds no placeholder is written as the single        *)
(* element Lit; the template's first character and its last two ("}" and   *)
(* the line end before the closing quote) are kept as they are.            *)
(***************************************************************************)
Lit == <<"[...]">>

\* "{input.name}: {input.rust_type}" for each input, ", " unless @last
RenderParams(inputs) ==
    Join([i \in 1..Len(inputs) |-> inputs[i].name \o <<":"," ">> \o inputs[i].rust_type],
         <<","," ">>)

\* "{input.name}" for each input, ", " unless @last
RenderNames(inputs) ==
    Join([i \in 1..Len(inputs) |-> inputs[i].name], <<","," ">>)

\* "{input.name}.tokenize()" for each input, "," and a line end unless @last
RenderTokens(inputs) ==
    Join([i \in 1..Len(inputs) |-> inputs[i].name \o Lit], <<",", NL>> \o Lit)

\* lines 50-53, once per function
RenderSelectorConst(f) ==
    Lit \o f.selector \o Lit \o upper_snake(JStr(f.name)).val \o Lit
        \o f.selector_hash \o Lit

\* lines 74-99, once per function
RenderMethods(f) ==
    LET sn == snake(JStr(f.name)).val IN
    Lit \o f.name \o Lit \o sn \o Lit \o RenderParams(f.inputs) \o Lit \o f.output
        \o Lit \o sn \o Lit \o RenderNames(f.inputs) \o Lit
        \o sn \o Lit \o RenderParams(f.inputs) \o Lit
        \o upper_snake(JStr(f.name)).val \o Lit \o RenderTokens(f.inputs) \o Lit

\* template.render("module", &module) of line 424
Render(module) ==
    LET cap == capitalize(JStr(module.name)) IN
    IF ~cap.ok THEN cap
    ELSE Ok(<<NL>> \o Lit \o module.name \o Lit \o cap.val \o Lit \o cap.val \o Lit
            \o module.evm_id \o Lit \o module.name \o Lit
            \o Concat([i \in 1..Len(module.functions) |->
                            RenderSelectorConst(module.functions[i])])
            \o Lit \o cap.val \o Lit \o cap.val \o Lit
            \o Concat([i \in 1..Len(module.functions) |->
                            RenderMethods(module.functions[i])])
            \o Lit \o <<"}", NL>>)

(***************************************************************************)
(* Inputs of a run.                                                        *)
(***************************************************************************)
S_erc20 == <<"e","r","c","2","0">>
S_evm_id == <<"0","x","0","F">>
S_old == <<"o","l","d", NL>>

\* --module-name: a plain name, the empty name, a name whose first
\* character is not a single byte
ModuleNames == {S_erc20, <<>>, <<WideChar, "r", "c">>}

\* a type text that does not parse
S_unclosed == S_uint256 \o <<"[">>

InputObject(name, type) == JObj([name |-> JStr(name), type |-> type])
OutputObject(type) == JObj([type |-> JStr(type)])

InputLists ==
    { <<>>,
      <<InputObject(S_to, JStr(S_address)), InputObject(S_amount, JStr(S_uint256))>>,
      <<InputObject(S_amount, JStr(S_uint7))>>,
      <<InputObject(S_amount, JStr(S_unclosed))>> }

OutputLists ==
    { <<OutputObject(S_bool)>>,
      <<OutputObject(S_uint256)>>,
      <<OutputObject(S_bool), OutputObject(S_uint256)>> }

FunctionItem(m, i, o) ==
    JObj([type |-> JStr(S_function), name |-> JStr(S_transfer),
          stateMutability |-> JStr(m), inputs |-> JArr(i), outputs |-> JArr(o)])

\* state-mutating functions that return bool, with each of the input lists
PlainItems ==
    { FunctionItem(S_nonpayable, i, <<OutputObject(S_bool)>>) : i \in InputLists }

\* functions that are view or return something else than bool; their input
\* type does not parse
FilteredItems ==
    { FunctionItem(m, <<InputObject(S_to, JStr(S_unclosed))>>, o) :
        m \in {S_nonpayable, S_view}, o \in OutputLists }
    \ { FunctionItem(S_nonpayable, <<InputObject(S_to, JStr(S_unclosed))>>,
                     <<OutputObject(S_bool)>>) }

OtherItems ==
    { \* an event: no stateMutability and no outputs, a type that does not parse
      JObj([type |-> JStr(S_event), name |-> JStr(S_transfer),
            inputs |-> JArr(<<InputObject(S_to, JStr(S_unclosed))>>)]),
      \* a function without stateMutability and without outputs
      JObj([type |-> JStr(S_function), name |-> JStr(S_transfer),
            inputs |-> JArr(<<InputObject(S_to, JStr(S_int24))>>)]),
      \* a function whose input type is not a string
      FunctionItem(S_nonpayable, <<InputObject(S_to, JNum(7))>>,
                   <<OutputObject(S_bool)>>),
      \* an entry that is no object
      JNum(1) }

Items == PlainItems \cup FilteredItems \cup OtherItems

RECURSIVE SeqsUpTo(_, _)
SeqsUpTo(S, n) ==
    IF n = 0 THEN {<<>>}
    ELSE LET shorter == SeqsUpTo(S, n - 1)
         IN  shorter \cup {Append(q, x) : q \in shorter, x \in S}

\* what json::parse can return for the input text: an array of entries, or a
\* value that is no array
Documents ==
    {JArr(items) : items \in SeqsUpTo(Items, MaxEntries)}
        \cup {JNull, JNum(7), JStr(S_function)}
        \cup {FunctionItem(S_nonpayable, <<>>, <<OutputObject(S_bool)>>)}

(***************************************************************************)
(* State of a run of main (lines 319-427).                                 *)
(***************************************************************************)
VARIABLES
    pc,         \* the step main is about to take
    result,     \* "running", then how main ended: "ok", "err" or "panic"
    args,       \* Args; input and output are moved out when matched
    reader,     \* "none", "stdin" or "file"
    writer,     \* "none", "stdout" or "file"
    outFile,    \* the file named by --output: [exists, data]
    outBefore,  \* that file as it was before the run
    stdout,     \* the text written to standard output
    parsed,     \* the JsonValue of line 335
    module,     \* the Module of lines 418-422
    rendered,   \* the text of line 424
    ty,         \* type mapper: the ParamType under conversion
    conv,       \* type mapper: the text convert_type returned
    inp         \* type mapper: the result of the input closure

vars == <<pc, result, args, reader, writer, outFile, outBefore, stdout,
          parsed, module, rendered, ty, conv, inp>>

None == [kind |-> "none"]
NoFile == [exists |-> FALSE, data |-> <<>>]
File(data) == [exists |-> TRUE, data |-> data]

mainVars == <<pc, result, args, reader, writer, outFile, outBefore, stdout,
              parsed, module, rendered>>
typeVars == <<ty, conv, inp>>

Init ==
    /\ pc = "open_input"
    /\ result = "running"
    /\ args \in [input : {"stdin", "file"}, output : {"stdout", "file"},
                 module_name : ModuleNames, evm_id : {S_evm_id}]
    /\ reader = "none"
    /\ writer = "none"
    /\ outFile \in IF args.output = "file" THEN {NoFile, File(S_old)} ELSE {NoFile}
    /\ outBefore = outFile
    /\ stdout = <<>>
    /\ parsed = None
    /\ module = None
    /\ rendered = <<>>
    /\ ty = None
    /\ conv = None
    /\ inp = None

\* a step of main that returns Err through `?`
Fail ==
    /\ pc' = "done"
    /\ result' = "err"

\* a step of main that panics
Panic ==
    /\ pc' = "done"
    /\ result' = "panic"

\* lines 322-325
OpenInput ==
    /\ pc = "open_input"
    /\ pc' = "open_output"
    /\ reader' = args.input
    /\ args' = [args EXCEPT !.input = "moved"]
    /\ UNCHANGED <<result, writer, outFile, outBefore, stdout, parsed, module,
                   rendered, typeVars>>

\* line 323: fs::File::open fails
OpenInputFail ==
    /\ pc = "open_input"
    /\ args.input = "file"
    /\ Fail
    /\ args' = [args EXCEPT !.input = "moved"]
    /\ UNCHANGED <<reader, writer, outFile, outBefore, stdout, parsed, module,
                   rendered, typeVars>>

\* lines 327-330: fs::File::create makes the file or empties it
OpenOutput ==
    /\ pc = "open_output"
    /\ pc' = "read"
    /\ writer' = args.output
    /\ args' = [args EXCEPT !.output = "moved"]
    /\ outFile' = IF args.output = "file" THEN File(<<>>) ELSE outFile
    /\ UNCHANGED <<result, reader, outBefore, stdout, parsed, module, rendered,
                   typeVars>>

\* line 328: fs::File::create fails
OpenOutputFail ==
    /\ pc = "open_output"
    /\ args.output = "file"
    /\ Fail
    /\ args' = [args EXCEPT !.output = "moved"]
    /\ UNCHANGED <<reader, writer, outFile, outBefore, stdout, parsed, module,
                   rendered, typeVars>>

\* lines 332-333
ReadInput ==
    /\ pc = "read"
    /\ pc' = "parse"
    /\ UNCHANGED <<result, args, reader, writer, outFile, outBefore, stdout,
                   parsed, module, rendered, typeVars>>

\* line 333: read_to_string fails
ReadInputFail ==
    /\ pc = "read"
    /\ Fail
    /\ UNCHANGED <<args, reader, writer, outFile, outBefore, stdout, parsed,
                   module, rendered, typeVars>>

\* line 335: the text is JSON
ParseJson ==
    /\ pc = "parse"
    /\ pc' = "build"
    /\ \E doc \in Documents : parsed' = doc
    /\ UNCHANGED <<result, args, reader, writer, outFile, outBefore, stdout,
                   module, rendered, typeVars>>

\* line 335: the text is not JSON
ParseJsonFail ==
    /\ pc = "parse"
    /\ Fail
    /\ UNCHANGED <<args, reader, writer, outFile, outBefore, stdout, parsed,
                   module, rendered, typeVars>>

\* lines 376-422
BuildModule ==
    /\ pc = "build"
    /\ BuildFunctions(parsed).ok
    /\ pc' = "render"
    /\ module' = [name |-> args.module_name, evm_id |-> args.evm_id,
                  functions |-> BuildFunctions(parsed).val]
    /\ args' = [args EXCEPT !.module_name = "moved", !.evm_id = "moved"]
    /\ UNCHANGED <<result, reader, writer, outFile, outBefore, stdout, parsed,
                   rendered, typeVars>>

\* lines 385-386: an unwrap in the map closure panics
BuildModulePanic ==
    /\ pc = "build"
    /\ ~BuildFunctions(parsed).ok
    /\ Panic
    /\ UNCHANGED <<args, reader, writer, outFile, outBefore, stdout, parsed,
                   module, rendered, typeVars>>

\* line 424
RenderModule ==
    /\ pc = "render"
    /\ Render(module).ok
    /\ pc' = "write"
    /\ rendered' = Render(module).val
    /\ UNCHANGED <<result, args, reader, writer, outFile, outBefore, stdout,
                   parsed, module, typeVars>>

\* line 424: the capitalize formatter panics in split_at
RenderModulePanic ==
    /\ pc = "render"
    /\ ~Render(module).ok
    /\ Render(module).err = "Panic"
    /\ Panic
    /\ UNCHANGED <<args, reader, writer, outFile, outBefore, stdout, parsed,
                   module, rendered, typeVars>>

\* lines 425-427: the text and a line end go to the writer, main returns Ok
\* and the writer is flushed as it is dropped
WriteOutput ==
    /\ pc = "write"
    /\ pc' = "done"
    /\ result' = "ok"
    /\ IF writer = "file"
       THEN /\ outFile' = File(outFile.data \o rendered \o <<NL>>)
            /\ UNCHANGED stdout
       ELSE /\ stdout' = stdout \o rendered \o <<NL>>
            /\ UNCHANGED outFile
    /\ UNCHANGED <<args, reader, writer, outBefore, parsed, module, rendered,
                   typeVars>>

\* line 425: the write fails
WriteOutputFail ==
    /\ pc = "write"
    /\ Fail
    /\ UNCHANGED <<args, reader, writer, outFile, outBefore, stdout, parsed,
                   module, rendered, typeVars>>

Next ==
    \/ OpenInput
    \/ OpenInputFail
    \/ OpenOutput
    \/ OpenOutputFail
    \/ ReadInput
    \/ ReadInputFail
    \/ ParseJson
    \/ ParseJsonFail
    \/ BuildModule
    \/ BuildModulePanic
    \/ RenderModule
    \/ RenderModulePanic
    \/ WriteOutput
    \/ WriteOutputFail

Spec == Init /\ [][Next]_vars

(***************************************************************************)
(* The type mapper on its own: a ParamType is built up structurally and    *)
(* handed to convert_type, and a raw type text is handed to the input      *)
(* closure.                                                                *)
(***************************************************************************)
Widths == {7, 8, 16, 24, 32, 64, 128, 256}

BaseTypes ==
    {PBool, PAddress, PBytes, PString, PFixedBytes(32), PTuple(<<>>)}
        \cup {PInt(w) : w \in Widths} \cup {PUint(w) : w \in Widths}

\* the element types that accompany the built type in a tuple
TuplePartners == {PBool, PUint(256)}

RECURSIVE Depth(_)
Depth(t) ==
    CASE t.tag \in {"Array", "FixedArray"} -> 1 + Depth(t.inner)
      [] t.tag = "Tuple" /\ t.inner # <<>> ->
            1 + MaxOf({Depth(t.inner[i]) : i \in 1..Len(t.inner)})
      [] OTHER -> 0

RawTypes ==
    { S_bool, S_address, S_bytes, S_string, S_uint, S_int, S_uint256, S_uint7,
      S_int24, S_unclosed,
      S_bytes \o <<"3","2">>,
      S_uint \o <<"x">>,
      S_uint256 \o <<"[","]">>,
      S_bool \o <<"[","2","]","[","]">>,
      S_uint256 \o <<"[","x","]">>,
      <<"(">> \o S_address \o <<",">> \o S_uint \o <<"8",")">>,
      <<"(">> \o S_address \o <<",">> \o S_int \o <<"1","2","8",")","[","3","]">> }

InitTypes ==
    /\ pc = "types"
    /\ result = "running"
    /\ args = None
    /\ reader = "none"
    /\ writer = "none"
    /\ outFile = NoFile
    /\ outBefore = NoFile
    /\ stdout = <<>>
    /\ parsed = None
    /\ module = None
    /\ rendered = <<>>
    /\ ty \in BaseTypes
    /\ conv = None
    /\ inp = None

WrapArray ==
    /\ pc = "types"
    /\ conv = None
    /\ Depth(ty) < MaxDepth
    /\ ty' = PArray(ty)
    /\ UNCHANGED <<mainVars, conv, inp>>

WrapFixedArray ==
    /\ pc = "types"
    /\ conv = None
    /\ Depth(ty) < MaxDepth
    /\ \E n \in {3, 10} : ty' = PFixedArray(ty, n)
    /\ UNCHANGED <<mainVars, conv, inp>>

WrapTuple ==
    /\ pc = "types"
    /\ conv = None
    /\ Depth(ty) < MaxDepth
    /\ \/ ty' = PTuple(<<ty>>)
       \/ \E p \in TuplePartners : ty' = PTuple(<<ty, p>>)
       \/ \E p \in TuplePartners : ty' = PTuple(<<p, ty>>)
    /\ UNCHANGED <<mainVars, conv, inp>>

\* a call of convert_type (lines 286-317)
ConvertType ==
    /\ pc = "types"
    /\ conv = None
    /\ conv' = Ok(convert_type(ty))
    /\ UNCHANGED <<mainVars, ty, inp>>

\* a call of the input closure (lines 384-394) on {"name": "to", "type": raw}
ConvertInput ==
    /\ pc = "types"
    /\ inp = None
    /\ \E raw \in RawTypes : inp' = MakeInput(InputObject(S_to, JStr(raw)))
    /\ UNCHANGED <<mainVars, ty, conv>>

NextTypes ==
    \/ WrapArray
    \/ WrapFixedArray
    \/ WrapTuple
    \/ ConvertType
    \/ ConvertInput

SpecTypes == InitTypes /\ [][NextTypes]_vars

(***************************************************************************)
(* Properties.                                                             *)
(***************************************************************************)
\* item has the key and its value is the text s
HasText(item, key, s) ==
    /\ item.kind = "object"
    /\ key \in DOMAIN item.fields
    /\ item.fields[key] = JStr(s)

\* the elements of item's array under key, none when there is no such array
ArrayOf(item, key) ==
    IF item.kind = "object" /\ key \in DOMAIN item.fields
            /\ item.fields[key].kind = "array"
    THEN item.fields[key].items ELSE <<>>

\* the three conditions of the filtering policy
Qualifies(item) ==
    /\ HasText(item, "type", S_function)
    /\ ~HasText(item, "stateMutability", S_view)
    /\ \A i \in 1..Len(ArrayOf(item, "outputs")) :
            HasText(ArrayOf(item, "outputs")[i], "type", S_bool)

Entries == IF parsed.kind = "array" THEN parsed.items ELSE <<>>

QualifyingPositions == {i \in 1..Len(Entries) : Qualifies(Entries[i])}

\* the k-th position of S in increasing order
Nth(S, k) == CHOOSE i \in S : Cardinality({j \in S : j < i}) = k - 1

\* f carries the name of item and the raw types of its inputs, in order
FunctionOf(f, item) ==
    /\ HasText(item, "name", f.name)
    /\ Len(f.inputs) = Len(ArrayOf(item, "inputs"))
    /\ \A i \in 1..Len(f.inputs) :
            HasText(ArrayOf(item, "inputs")[i], "type", f.inputs[i].evm_type)

Built == module # None

\* C1: in a Module that was built, an entry of the input has a Function
\* exactly when its type is "function", its stateMutability is not "view" and
\* all its outputs are "bool"; there are as many Functions as such entries;
\* and a build that raised a fault had such an entry to work on.
T_C1 ==
    /\ Built =>
        /\ Len(module.functions) = Cardinality(QualifyingPositions)
        /\ \A i \in 1..Len(Entries) :
              Qualifies(Entries[i]) <=>
                \E k \in 1..Len(module.functions) :
                    FunctionOf(module.functions[k], Entries[i])
    /\ (pc = "done" /\ result # "ok" /\ parsed # None /\ ~Built)
            => QualifyingPositions # {}

S_view_bool_item ==
    FunctionItem(S_view, <<InputObject(S_to, JStr(S_unclosed))>>, <<OutputObject(S_bool)>>)

S_uint256_item ==
    FunctionItem(S_nonpayable, <<InputObject(S_to, JStr(S_unclosed))>>,
                 <<OutputObject(S_uint256)>>)

W_C1 ==
    /\ Built
    /\ Len(module.functions) = 1
    /\ \E i, j \in 1..Len(Entries) :
          Qualifies(Entries[i]) /\ Entries[j] \in {S_view_bool_item, S_uint256_item}

\* C2: the Functions of the Module are the qualifying entries in input order,
\* one Function per qualifying entry.
T_C2 ==
    Built =>
        /\ Len(module.functions) = Cardinality(QualifyingPositions)
        /\ \A k \in 1..Len(module.functions) :
              FunctionOf(module.functions[k], Entries[Nth(QualifyingPositions, k)])

W_C2 ==
    /\ Built
    /\ Len(module.functions) = 2
    /\ module.functions[1].selector # module.functions[2].selector

RECURSIVE CommaSeparated(_)
CommaSeparated(texts) ==
    IF texts = <<>> THEN <<>>
    ELSE IF Len(texts) = 1 THEN texts[1]
    ELSE CommaSeparated(SubSeq(texts, 1, Len(texts) - 1)) \o <<",">> \o texts[Len(texts)]

S_transfer_address_uint256 ==
    <<"t","r","a","n","s","f","e","r","(","a","d","d","r","e","s","s",",",
      "u","i","n","t","2","5","6",")">>

\* C3: the selector of a Function is its name, "(", the raw types of its
\* inputs joined by "," and ")"; the hash is taken of that text.
T_C3 ==
    Built =>
        \A k \in 1..Len(module.functions) :
            LET f == module.functions[k]
                item == Entries[Nth(QualifyingPositions, k)]
                types == [i \in 1..Len(f.inputs) |-> f.inputs[i].evm_type]
            IN  /\ f.selector = f.name \o <<"(">> \o CommaSeparated(types) \o <<")">>
                /\ f.selector_hash = SelectorHash(f.selector)
                /\ types = <<S_address, S_uint256>> /\ f.name = S_transfer
                        => f.selector = S_transfer_address_uint256
                /\ types = <<>> /\ f.name = S_transfer
                        => f.selector = S_transfer \o <<"(", ")">>

W_C3 ==
    /\ Built
    /\ \E k \in 1..Len(module.functions) :
          module.functions[k].selector = S_transfer_address_uint256
    /\ \E k \in 1..Len(module.functions) :
          module.functions[k].selector = S_transfer \o <<"(", ")">>

\* an input of a qualifying entry has a type that is no text or does not parse
MalformedInput ==
    \E i \in QualifyingPositions :
        \E j \in 1..Len(ArrayOf(Entries[i], "inputs")) :
            LET type == Index(ArrayOf(Entries[i], "inputs")[j], "type")
            IN  type.kind # "string" \/ ~Read(type.val).ok

\* C4: a run whose input has a qualifying entry with a malformed input type
\* ends in a returned error, with no Module and no panic.
CE_C4 ==
    (pc = "done" /\ parsed # None /\ MalformedInput)
        => (result = "err" /\ ~Built)

\* an integer type text of a width other than 256
OddWidth(evm_type) ==
    LET t == Read(evm_type)
    IN  t.ok /\ t.val.tag \in {"Int", "Uint"} /\ t.val.size # 256

\* C5: no Input of the Module maps an integer type of a width other than 256
\* to U256 or I256.
CE_C5 ==
    Built =>
        \A k \in 1..Len(module.functions) :
            \A i \in 1..Len(module.functions[k].inputs) :
                LET input == module.functions[k].inputs[i]
                IN  input.rust_type \in {<<"U","2","5","6">>, <<"I","2","5","6">>}
                        => ~OddWidth(input.evm_type)

\* C6: a run whose top-level value is no array ends in a returned error,
\* with no Module.
CE_C6 ==
    (pc = "done" /\ parsed # None /\ parsed.kind # "array")
        => (result = "err" /\ ~Built)

\* C7: the output destination is changed only by a run that succeeds.
CE_C7 ==
    (outFile # outBefore \/ stdout # <<>>) => result = "ok"

Written == IF writer = "file" THEN outFile.data ELSE stdout

\* C8: the text a successful run wrote ends in exactly one line end.
CE_C8 ==
    result = "ok" =>
        /\ Len(Written) >= 2
        /\ Written[Len(Written)] = NL
        /\ Written[Len(Written) - 1] # NL

\* C9: rendering never panics, whatever the module name.
CE_C9 ==
    (pc = "done" /\ Built) => result # "panic"

\* the table of the type mapper, one level deep
Mapped(t) ==
    CASE t.tag = "Bool" -> <<"b","o","o","l">>
      [] t.tag = "Address" -> <<"H","1","6","0">>
      [] t.tag = "Bytes" -> <<"V","e","c","<","u","8",">">>
      [] t.tag = "String" -> <<"S","t","r","i","n","g">>
      [] t.tag = "FixedBytes" ->
            <<"F","i","x","e","d","B","y","t","e","s","<">> \o ToDecimal(t.size) \o <<">">>
      [] t.tag = "Int" ->
            IF t.size \in {8, 16, 32, 64, 128}
            THEN <<"i">> \o ToDecimal(t.size) ELSE <<"I","2","5","6">>
      [] t.tag = "Uint" ->
            IF t.size \in {8, 16, 32, 64, 128}
            THEN <<"u">> \o ToDecimal(t.size) ELSE <<"U","2","5","6">>
      [] t.tag = "Array" -> <<"V","e","c","<">> \o convert_type(t.inner) \o <<">">>
      [] t.tag = "FixedArray" ->
            <<"[">> \o convert_type(t.inner) \o <<";"," ">> \o ToDecimal(t.size) \o <<"]">>
      [] t.tag = "Tuple" ->
            <<"(">>
                \o (IF t.inner = <<>> THEN <<>>
                    ELSE convert_type(t.inner[1])
                         \o Concat([i \in 1..(Len(t.inner) - 1) |->
                                        <<","," ">> \o convert_type(t.inner[i + 1])]))
                \o <<")">>

\* C10: convert_type returns the text of the table for every ParamType, the
\* element types of arrays and tuples mapped by convert_type itself; and the
\* rust_type of an Input is convert_type of its parsed evm_type.
T_C10 ==
    /\ conv # None => conv.val = Mapped(ty)
    /\ (inp # None /\ inp.ok) =>
            /\ Read(inp.val.evm_type).ok
            /\ inp.val.rust_type = Mapped(Read(inp.val.evm_type).val)

W_C10 ==
    /\ conv # None
    /\ ty.tag = "Tuple"
    /\ Len(ty.inner) = 2
    /\ ty.inner[1].tag = "FixedArray"
    /\ ty.inner[1].inner = PUint(128)
    /\ inp # None
    /\ inp.ok
    /\ inp.val.rust_type = <<"[","(","H","1","6","0",","," ","i","1","2","8",")",";"," ","3","]">>

====
